---- MODULE Spec2Model ----
(***************************************************************************)
(* Transaction construction, signing and submission of amadeus-mcp:        *)
(*   src/src/wasm/tx.rs                 TxAction/Tx/TxU, get_public_key,   *)
(*                                      sign, build and the two recipes    *)
(*   src/src/wasm/mint.rs               the faucet transfer                *)
(*   src/src/blockchain/client_wasm.rs  BlockchainClient::request          *)
(*   src/src/server.rs                  the create_transfer and            *)
(*                                      submit_transaction tools           *)
(*                                                                         *)
(* Byte strings are sequences of 0..255.  Values of the cryptographic      *)
(* primitives (SHA-256 digests, curve points, signatures) and encoded      *)
(* buffers are symbolic terms: records whose field names say which         *)
(* primitive made them, so that two terms are equal exactly when they were *)
(* made the same way from equal inputs.                                    *)
(***************************************************************************)
EXTENDS Integers, Sequences, FiniteSets, TLC

VARIABLES now,      \* the wall clock, in milliseconds (js_sys::Date::now())
          builds,   \* how many times build has run in this process
          call,     \* the last direct call of a builder function, with its result
          rerun,    \* the result of the last repetition of that call
          env,      \* the worker's configuration (AMADEUS_TESTNET_RPC, _SK)
          faucet,   \* the faucet transfer in progress: its position and locals
          submit,   \* the submit_transaction tool call in progress
          create    \* the create_transfer tool call in progress

vars == <<now, builds, call, rerun, env, faucet, submit, create>>

---------------------------------------------------------------------------
(* Bounds of the model. *)

\* The clock runs from 1 to MaxClock.
MaxClock == 3
\* A caller runs a builder function once and then again, with the same
\* inputs, until build has run MaxBuilds times.
MaxBuilds == 3

---------------------------------------------------------------------------
(* Program constants. *)

\* tx.rs:53 and :65, the length get_public_key and sign require of a secret
SecretKeyLen == 64
\* mint.rs:26, the length the faucet requires of a receiver
AddressLen == 48
\* tx.rs:86, the factor between the clock's milliseconds and the nonce
NanosPerMilli == 1000000
\* mint.rs:50, the JSON-RPC code of every faucet error
InternalErrorCode == -32603
\* mint.rs:33, the number of digest bytes the faucet keeps
TxHashPrefixLen == 16
\* tx.rs:57 and :70, the length of a scalar's byte representation
ScalarLen == 32
\* the limb of the two-limb representation of an i128 (below)
Billion == 1000000000

\* tx.rs:4
DST_TX == "AMADEUS_SIG_BLS12381G2_XMD:SHA-256_SSWU_RO_TX_"

---------------------------------------------------------------------------
(* Option and Result. *)

None == [some |-> FALSE]
Some(v) == [some |-> TRUE, val |-> v]

\* A Result with the trace of the steps performed to reach it.
Ok(v, steps) == [ok |-> TRUE, val |-> v, steps |-> steps]
Err(msg, steps) == [ok |-> FALSE, err |-> msg, steps |-> steps]

---------------------------------------------------------------------------
(* Bytes and strings.  A &str is the sequence of its UTF-8 bytes; every    *)
(* string of the model is ASCII.                                           *)

Zeros(n) == [i \in 1..n |-> 0]
Reverse(s) == [i \in 1..Len(s) |-> s[Len(s) + 1 - i]]
IsZero(s) == \A i \in 1..Len(s) : s[i] = 0

\* str::as_bytes (tx.rs:112, :131)
as_bytes(str) == str

\* "AMA" (mint.rs:7)
FAUCET_SYMBOL == <<65, 77, 65>>

---------------------------------------------------------------------------
(* i128.  TLC's integers are 32 bits wide, and FAUCET_AMOUNT is 10^11: an  *)
(* i128 is a sign and two limbs, of value (hi * 10^9 + lo), negated when   *)
(* neg.  Zero is not negative.                                             *)

I128(neg, hi, lo) == [neg |-> neg, hi |-> hi, lo |-> lo]

\* 100_000_000_000 (mint.rs:6)
FAUCET_AMOUNT == I128(FALSE, 100, 0)

RECURSIVE DigitsOf(_)
\* The decimal digits of a natural number, most significant first.
DigitsOf(n) == IF n < 10 THEN <<48 + n>>
               ELSE DigitsOf(n \div 10) \o <<48 + (n % 10)>>

RECURSIVE PadDigits(_, _)
\* The last w decimal digits of n, with leading zeros.
PadDigits(n, w) == IF w = 0 THEN <<>>
                   ELSE PadDigits(n \div 10, w - 1) \o <<48 + (n % 10)>>

\* A mutant of to_string: the low limb printed without its leading zeros.
to_string_unpadded(a) ==
    (IF a.neg THEN <<45>> ELSE <<>>)
    \o (IF a.hi = 0 THEN DigitsOf(a.lo) ELSE DigitsOf(a.hi) \o DigitsOf(a.lo))

\* i128's Display (amount.to_string(), tx.rs:112 and :130): a '-' for a
\* negative value, then the decimal digits without leading zeros.
to_string(a) ==
    (IF a.neg THEN <<45>> ELSE <<>>)
    \o (IF a.hi = 0 THEN DigitsOf(a.lo) ELSE DigitsOf(a.hi) \o PadDigits(a.lo, 9))

---------------------------------------------------------------------------
(* Key derivation and signing (tx.rs:49-75).                               *)
(*                                                                         *)
(* A scalar of the BLS12-381 scalar field is its 32-byte little-endian     *)
(* representation.  A compressed G1 point generator * k is the term        *)
(* [g1 |-> k]; the signature of message m by scalar k under tag dst is the *)
(* term [signer |-> k, message |-> m, dst |-> dst].                        *)

\* The order r of the scalar field, big-endian:
\* 0x73eda753299d7d483339d80809a1d80553bda402fffe5bfeffffffff00000001.
ScalarModulusBE ==
    << 115, 237, 167,  83,  41, 157, 125,  72,  51,  57, 216,   8,
         9, 161, 216,   5,  83, 189, 164,   2, 255, 254,  91, 254,
       255, 255, 255, 255,   0,   0,   0,   1 >>

\* a < b for two big-endian numbers of equal length.
LessBE(a, b) ==
    \E i \in 1..Len(a) : /\ a[i] < b[i]
                         /\ \A j \in 1..(i - 1) : a[j] = b[j]

\* Whether a 64-byte little-endian number is already below r, so that its
\* reduction modulo r is the number itself.
BelowModulus(bytes_64) ==
    /\ IsZero(SubSeq(bytes_64, ScalarLen + 1, SecretKeyLen))
    /\ LessBE(Reverse(SubSeq(bytes_64, 1, ScalarLen)), ScalarModulusBE)

\* Scalar::from_bytes_wide (tx.rs:57, :69): the 512-bit little-endian number
\* reduced modulo r.  Every secret of the model is below r (see Secrets), and
\* the reduction of such a number is its low 32 bytes; TLC stops on any other.
from_bytes_wide(bytes_64) ==
    CASE BelowModulus(bytes_64) -> SubSeq(bytes_64, 1, ScalarLen)

\* Scalar::to_bytes (tx.rs:70): the little-endian bytes of the scalar.
to_bytes(scalar) == scalar

\* blst::min_pk::SecretKey::from_bytes (tx.rs:72): reads 32 big-endian bytes
\* and accepts the scalar k only if 0 < k < r.
SecretKey_from_bytes(sk_in) ==
    IF Len(sk_in) # ScalarLen \/ IsZero(sk_in) \/ ~LessBE(sk_in, ScalarModulusBE)
    THEN Err("BLST_BAD_ENCODING", <<>>)
    ELSE Ok(Reverse(sk_in), <<>>)

\* G1Projective::generator() * sk_scalar, compressed (tx.rs:58-59).
G1Compressed(scalar) == [g1 |-> scalar]

\* A mutant of SignatureBytes: the signature is made under the library's
\* default tag, the dst passed in is not used.
SignatureBytesDefaultTag(scalar, message, dst) ==
    [signer |-> scalar, message |-> message,
     dst |-> "BLS_SIG_BLS12381G2_XMD:SHA-256_SSWU_RO_NUL_"]

\* SecretKey::sign(message, dst, aug = []) (tx.rs:73-74).
SignatureBytes(scalar, message, dst) ==
    [signer |-> scalar, message |-> message, dst |-> dst]

\* A mutant of get_public_key: any secret of at least 64 bytes is accepted
\* and its first 64 bytes are used.
get_public_key_prefix(sk_bytes) ==
    IF Len(sk_bytes) < SecretKeyLen
    THEN Err("secret key must be 64 bytes", <<>>)
    ELSE Ok(G1Compressed(from_bytes_wide(SubSeq(sk_bytes, 1, SecretKeyLen))),
            <<"derive_public_key">>)

\* get_public_key (tx.rs:49-60).  The try_into of line 56 cannot fail after
\* the length check of line 53.
get_public_key(sk_bytes) ==
    IF Len(sk_bytes) # SecretKeyLen
    THEN Err("secret key must be 64 bytes", <<>>)
    ELSE Ok(G1Compressed(from_bytes_wide(sk_bytes)), <<"derive_public_key">>)

\* A mutant of sign: the scalar's bytes are not reversed before
\* SecretKey::from_bytes reads them.
sign_unreversed(sk_bytes, message, dst) ==
    IF Len(sk_bytes) # SecretKeyLen
    THEN Err("secret key must be 64 bytes", <<>>)
    ELSE LET sk_scalar == from_bytes_wide(sk_bytes)
             sk == SecretKey_from_bytes(to_bytes(sk_scalar))
         IN  IF ~sk.ok THEN Err("invalid secret key", <<"reduce_secret">>)
             ELSE Ok(SignatureBytes(sk.val, message, dst),
                     <<"reduce_secret", "sign">>)

\* sign (tx.rs:62-75).
sign(sk_bytes, message, dst) ==
    IF Len(sk_bytes) # SecretKeyLen
    THEN Err("secret key must be 64 bytes", <<>>)
    ELSE LET sk_scalar == from_bytes_wide(sk_bytes)
             sk_be == Reverse(to_bytes(sk_scalar))
             sk == SecretKey_from_bytes(sk_be)
         IN  IF ~sk.ok THEN Err("invalid secret key", <<"reduce_secret">>)
             ELSE Ok(SignatureBytes(sk.val, message, dst),
                     <<"reduce_secret", "sign">>)

\* Sha256::digest (tx.rs:99, mint.rs:33).
Sha256(bytes) == [sha256 |-> bytes]

---------------------------------------------------------------------------
(* The canonical encoding (vecpak::to_vec over the serde derives of        *)
(* tx.rs:6-47).  An encoded buffer is the term [vecpak |-> entries], the   *)
(* sequence of the (field name, value) pairs the derive emits, in          *)
(* declaration order; a nested struct is the sequence of its own entries.  *)

OptionalEntry(name, opt) == IF opt.some THEN << <<name, opt.val>> >> ELSE <<>>

\* Serialize for TxAction (tx.rs:19-30): args through args_serde as a list of
\* byte buffers, the two optional fields skipped when None.
TxActionEntries(action) ==
    << <<"args", action.args>>,
       <<"contract", action.contract>>,
       <<"function", action.function>>,
       <<"op", action.op>> >>
    \o OptionalEntry("attached_symbol", action.attached_symbol)
    \o OptionalEntry("attached_amount", action.attached_amount)

\* Serialize for Tx (tx.rs:32-38).
TxEntries(tx) ==
    << <<"action", TxActionEntries(tx.action)>>,
       <<"nonce", tx.nonce>>,
       <<"signer", tx.signer>> >>

\* Serialize for TxU (tx.rs:40-47).
TxUEntries(txu) ==
    << <<"hash", txu.hash>>,
       <<"signature", txu.signature>>,
       <<"tx", TxEntries(txu.tx)>> >>

\* vecpak::to_vec(&tx) (tx.rs:98)
to_vec_tx(tx) == [vecpak |-> TxEntries(tx)]
\* vecpak::to_vec(&txu) (tx.rs:103)
to_vec_txu(txu) == [vecpak |-> TxUEntries(txu)]

HasEntry(entries, name) == \E i \in 1..Len(entries) : entries[i][1] = name
EntryOf(entries, name) ==
    entries[CHOOSE i \in 1..Len(entries) : entries[i][1] = name][2]
OptionalOf(entries, name) ==
    IF HasEntry(entries, name) THEN Some(EntryOf(entries, name)) ELSE None

\* Deserialize for TxAction, Tx and TxU (tx.rs:19-47): a field is looked up by
\* name, and an Option field that is missing is None.
TxActionOf(entries) ==
    [ args            |-> EntryOf(entries, "args"),
      contract        |-> EntryOf(entries, "contract"),
      function        |-> EntryOf(entries, "function"),
      op              |-> EntryOf(entries, "op"),
      attached_symbol |-> OptionalOf(entries, "attached_symbol"),
      attached_amount |-> OptionalOf(entries, "attached_amount") ]

TxOf(entries) ==
    [ action |-> TxActionOf(EntryOf(entries, "action")),
      nonce  |-> EntryOf(entries, "nonce"),
      signer |-> EntryOf(entries, "signer") ]

\* The wire unit a packed buffer carries.
from_slice_txu(packed) ==
    [ hash      |-> EntryOf(packed.vecpak, "hash"),
      signature |-> EntryOf(packed.vecpak, "signature"),
      tx        |-> TxOf(EntryOf(packed.vecpak, "tx")) ]

---------------------------------------------------------------------------
(* TransactionBuilder (tx.rs:77-136).                                      *)

\* A mutant of DeriveNonce: a per-process counter is mixed into the nonce.
DeriveNonceCounted == (now * NanosPerMilli) + builds

\* A mutant of DeriveNonce: the clock's milliseconds, not scaled.
DeriveNonceMillis == now

\* js_sys::Date::now() as i128 * 1_000_000 (tx.rs:86).
DeriveNonce == now * NanosPerMilli

\* A mutant of TxDigest: only the action is hashed.
TxDigestOfAction(tx) == Sha256([vecpak |-> TxActionEntries(tx.action)])

\* Sha256::digest(&vecpak::to_vec(&tx)) (tx.rs:98-99).
TxDigest(tx) == Sha256(to_vec_tx(tx))

\* build (tx.rs:77-104).  A successful result holds the packed wire unit.
\* vecpak::to_vec does not fail on a Tx or a TxU, whose fields are all
\* serializable, so the two "failed to encode" errors have no case.
build(sk_bytes, contract, function, args, attached_symbol, attached_amount) ==
    LET pk == get_public_key(sk_bytes) IN
    IF ~pk.ok THEN Err(pk.err, pk.steps)
    ELSE
    LET nonce  == DeriveNonce
        action == [ op              |-> "call",
                    contract        |-> contract,
                    function        |-> function,
                    args            |-> args,
                    attached_symbol |-> attached_symbol,
                    attached_amount |-> attached_amount ]
        tx     == [ signer |-> pk.val, nonce |-> nonce, action |-> action ]
        hash   == TxDigest(tx)
        before == pk.steps \o <<"clock_read", "encode_tx", "hash_tx">>
        signature == sign(sk_bytes, hash, DST_TX)
    IN  IF ~signature.ok THEN Err(signature.err, before \o signature.steps)
        ELSE Ok(to_vec_txu([ hash |-> hash, signature |-> signature.val, tx |-> tx ]),
                before \o signature.steps \o <<"encode_txu">>)

\* The native asset contract, "Coin" (tx.rs:110, :126).
Coin == "Coin"

\* A mutant of build_mint_tx: the amount before the symbol.
build_mint_tx_swapped(sk_bytes, symbol, amount) ==
    build(sk_bytes, Coin, "mint",
          << to_string(amount), as_bytes(symbol) >>, None, None)

\* build_mint_tx (tx.rs:106-116).
build_mint_tx(sk_bytes, symbol, amount) ==
    build(sk_bytes, Coin, "mint",
          << as_bytes(symbol), to_string(amount) >>, None, None)

\* A mutant of build_transfer_tx: the symbol before the amount.
build_transfer_tx_swapped(sk_bytes, receiver, symbol, amount) ==
    build(sk_bytes, Coin, "transfer",
          << receiver, as_bytes(symbol), to_string(amount) >>, None, None)

\* build_transfer_tx (tx.rs:118-136).
build_transfer_tx(sk_bytes, receiver, symbol, amount) ==
    build(sk_bytes, Coin, "transfer",
          << receiver, to_string(amount), as_bytes(symbol) >>, None, None)

---------------------------------------------------------------------------
(* The inputs the builder functions are called with. *)

SkZero  == Zeros(SecretKeyLen)
SkOne   == <<1>> \o Zeros(SecretKeyLen - 1)
SkTwo   == <<2, 1>> \o Zeros(SecretKeyLen - 2)
SkShort == <<1>> \o Zeros(SecretKeyLen - 2)
SkLong  == <<1>> \o Zeros(SecretKeyLen)

\* Secrets of 64 bytes (the all-zero one, whose scalar is 0, among them), of
\* 63 and of 65 bytes.  Those of 64 bytes are below r.
Secrets == { SkZero, SkOne, SkTwo, SkShort, SkLong }

Addr48 == [i \in 1..AddressLen |-> 7]
Receivers == { Addr48,
               [i \in 1..(AddressLen - 1) |-> 7],
               [i \in 1..(AddressLen + 1) |-> 7] }

\* "AMA" and "X"
Symbols == { FAUCET_SYMBOL, <<88>> }

\* 0, 100, 1_000_000_005, 100_000_000_000 and -5
Amounts == { I128(FALSE, 0, 0), I128(FALSE, 0, 100), I128(FALSE, 1, 5),
             FAUCET_AMOUNT, I128(TRUE, 0, 5) }

\* The calls of build itself: a function name, its arguments and an attached
\* asset (symbol and amount-as-digits), present or not.
Functions == { "transfer", "burn" }
ArgLists == { <<>>, << FAUCET_SYMBOL, <<49>> >> }
Attachments == { <<None, None>>,
                 <<Some(FAUCET_SYMBOL), Some(<<49, 48>>)>>,
                 <<None, Some(<<49, 48>>)>> }

NoCall == [ fn |-> "none" ]

\* The function a call record names, applied to the inputs it holds.
Invoke(c) ==
    CASE c.fn = "build_mint_tx" -> build_mint_tx(c.sk, c.symbol, c.amount)
      [] c.fn = "build_transfer_tx" ->
             build_transfer_tx(c.sk, c.receiver, c.symbol, c.amount)
      [] c.fn = "build" ->
             build(c.sk, c.contract, c.function, c.args,
                   c.attached_symbol, c.attached_amount)

NoRerun == [ done |-> FALSE ]

\* A caller runs c: the call and its result are recorded.  The builder
\* functions keep nothing between two calls, so one call and its repetitions
\* stand for any sequence of calls.
Called(c) ==
    /\ call.fn = "none"
    /\ builds' = builds + 1
    /\ call' = [ c EXCEPT !.at = now, !.out = Invoke(c) ]
    /\ rerun' = NoRerun
    /\ UNCHANGED <<now, env, faucet, submit, create>>

CallBuildMintTx ==
    \E sk \in Secrets, symbol \in Symbols, amount \in Amounts :
        Called([ fn |-> "build_mint_tx", sk |-> sk, symbol |-> symbol,
                 amount |-> amount, at |-> 0, out |-> <<>> ])

CallBuildTransferTx ==
    \E sk \in Secrets, receiver \in Receivers, symbol \in Symbols, amount \in Amounts :
        Called([ fn |-> "build_transfer_tx", sk |-> sk, receiver |-> receiver,
                 symbol |-> symbol, amount |-> amount, at |-> 0, out |-> <<>> ])

CallBuild ==
    \E sk \in Secrets, function \in Functions, args \in ArgLists,
       attached \in Attachments :
        Called([ fn |-> "build", sk |-> sk, contract |-> Coin,
                 function |-> function, args |-> args,
                 attached_symbol |-> attached[1],
                 attached_amount |-> attached[2], at |-> 0, out |-> <<>> ])

\* The same caller runs the last call a second time, with the same inputs.
Rebuild ==
    /\ call.fn # "none"
    /\ builds < MaxBuilds
    /\ builds' = builds + 1
    /\ rerun' = [ done |-> TRUE, at |-> now, out |-> Invoke(call) ]
    /\ UNCHANGED <<now, call, env, faucet, submit, create>>

\* Time passes.
Tick ==
    /\ now < MaxClock
    /\ now' = now + 1
    /\ UNCHANGED <<builds, call, rerun, env, faucet, submit, create>>

---------------------------------------------------------------------------
(* Boundary encodings and the transport.                                   *)
(*                                                                         *)
(* A base58 text is the term [b58 |-> well-formed, bytes |-> the bytes it  *)
(* encodes]; a hex text is [hex |-> bytes].  A URL is a scheme (empty when *)
(* the text has none), a host and a count of trailing '/'.                 *)

Base58Text(bytes) == [b58 |-> TRUE, bytes |-> bytes]
\* A text with a character outside the base58 alphabet.
NotBase58 == [b58 |-> FALSE, bytes |-> <<>>]

\* bs58::decode(..).into_vec() (mint.rs:19-24)
bs58_decode(text) == IF text.b58 THEN Ok(text.bytes, <<>>) ELSE Err("bs58", <<>>)
\* bs58::encode(..).into_string() (mint.rs:32)
bs58_encode(bytes) == Base58Text(bytes)

\* hex::encode (mint.rs:33)
hex_encode(bytes) == [hex |-> bytes]
\* &digest[..n] (mint.rs:33)
Prefix(digest, n) == [prefix |-> n, of |-> digest]

Url(scheme, host, slashes) == [scheme |-> scheme, host |-> host, slashes |-> slashes]
\* str::trim_end_matches('/') (mint.rs:35, client_wasm.rs:16)
trim_end_matches_slash(url) == [url EXCEPT !.slashes = 0]
\* A mutant of UrlParses: every text is taken for a URL.
UrlParsesAnything(base) == TRUE

\* Url::parse and Request::new_with_init (mint.rs:36, client_wasm.rs:154)
\* accept only an absolute URL.
UrlParses(base) == base.scheme # ""

\* mint.rs:49-51
err(msg, args) == [code |-> InternalErrorCode, message |-> msg, args |-> args]

\* A mutant of FaucetStatusOk: 300 is taken for a success.
FaucetStatusOkTo300(status) == ~(status < 200 \/ status > 300)

\* mint.rs:41-42
FaucetStatusOk(status) == ~(status < 200 \/ status >= 300)

\* client_wasm.rs:161
ClientStatusOk(status) == status \in 200..299

\* The status codes a response is drawn from.
Statuses == { 199, 200, 299, 300, 500 }

Body(readable, json, error, transaction_hash, status) ==
    [ readable |-> readable, json |-> json, error |-> error,
      transaction_hash |-> transaction_hash, status |-> status ]

\* The bodies a response is drawn from: an acceptance; an application-level
\* error alone; an application-level error beside a hash and a status; an
\* empty JSON object; a text that is no JSON; a body whose read fails.
Bodies ==
    { Body(TRUE, TRUE, None, Some("9f3a"), Some("accepted")),
      Body(TRUE, TRUE, Some("invalid_signature"), None, None),
      Body(TRUE, TRUE, Some("invalid_signature"), Some("9f3a"), Some("rejected")),
      Body(TRUE, TRUE, None, None, None),
      Body(TRUE, FALSE, None, None, None),
      Body(FALSE, FALSE, None, None, None) }

---------------------------------------------------------------------------
(* The faucet transfer (mint.rs:9-47), in two steps: the code up to the    *)
(* send() it awaits, and the code after the response.                      *)

FaucetIdle ==
    [ pc |-> "idle", address |-> NotBase58, steps |-> <<>>, sent |-> 0,
      tx_packed |-> None, tx_hash |-> None, request |-> None,
      response |-> None, result |-> None ]

\* A mutant of FaucetReturn: a failure after the request was sent sends the
\* request once more instead of returning.
FaucetReturnRetry(f, result) ==
    IF f.pc = "awaiting" /\ ~result.ok /\ f.sent < 2
    THEN [ f EXCEPT !.sent = f.sent + 1, !.response = None ]
    ELSE [ f EXCEPT !.pc = "done", !.tx_packed = None, !.tx_hash = None,
                    !.result = Some(result) ]

\* transfer returns: its locals are dropped, its result goes to the caller.
FaucetReturn(f, result) ==
    [ f EXCEPT !.pc = "done", !.tx_packed = None, !.tx_hash = None,
               !.result = Some(result) ]

FaucetFail(f, steps, msg) ==
    FaucetReturn([f EXCEPT !.steps = steps], [ok |-> FALSE, err |-> err(msg, <<>>)])

\* mint.rs:9-39: from the call to the request sent, or to the first error.
FaucetStart(f, address) ==
    IF ~env.rpc.some
    THEN FaucetFail(f, <<>>, "AMADEUS_TESTNET_RPC not configured")
    ELSE IF ~env.sk.some
    THEN FaucetFail(f, <<"rpc">>, "AMADEUS_TESTNET_SK not configured")
    ELSE
    LET sk == bs58_decode(env.sk.val) IN
    IF ~sk.ok
    THEN FaucetFail(f, <<"rpc", "sk">>, "invalid mint key encoding")
    ELSE
    LET receiver == bs58_decode(address) IN
    IF ~receiver.ok
    THEN FaucetFail(f, <<"rpc", "sk", "decode_sk">>, "invalid address encoding")
    ELSE
    LET decoded == <<"rpc", "sk", "decode_sk", "decode_address">> IN
    IF Len(receiver.val) # AddressLen
    THEN FaucetFail(f, decoded, "address must be 48 bytes")
    ELSE
    LET built == build_transfer_tx(sk.val, receiver.val, FAUCET_SYMBOL, FAUCET_AMOUNT)
        done  == decoded \o built.steps
    IN
    IF ~built.ok
    THEN FaucetFail(f, done, built.err)
    ELSE
    LET tx_packed == built.val
        tx_b58    == bs58_encode(tx_packed)
        tx_hash   == hex_encode(Prefix(Sha256(tx_packed), TxHashPrefixLen))
        url       == [ base |-> trim_end_matches_slash(env.rpc.val),
                       path |-> "/api/tx/submit/", arg |-> tx_b58 ]
    IN
    IF ~UrlParses(url.base)
    THEN FaucetFail(f, done \o <<"encode_b58", "tx_hash">>,
                    "relative URL without a base")
    ELSE [ f EXCEPT !.pc = "awaiting",
                    !.steps = done \o <<"encode_b58", "tx_hash", "send">>,
                    !.sent = 1,
                    !.tx_packed = Some(tx_packed),
                    !.tx_hash = Some(tx_hash),
                    !.request = Some(url) ]

\* A caller invokes the faucet for an address.
FaucetTransfer ==
    /\ faucet.pc # "awaiting"
    /\ \E address \in { Base58Text(r) : r \in Receivers } \cup { NotBase58 } :
          faucet' = FaucetStart([FaucetIdle EXCEPT !.address = address], address)
    /\ UNCHANGED <<now, builds, call, rerun, env, submit, create>>

\* mint.rs:37-39: send() fails, no response arrives.
FaucetSendFails ==
    /\ faucet.pc = "awaiting"
    /\ faucet' = FaucetReturn(faucet,
                     [ok |-> FALSE, err |-> err("fetch failed", <<>>)])
    /\ UNCHANGED <<now, builds, call, rerun, env, submit, create>>

\* mint.rs:41-46: the response arrives.
FaucetResponse ==
    /\ faucet.pc = "awaiting"
    /\ \E status \in Statuses, body \in Bodies :
          LET f == [faucet EXCEPT !.response = Some([status |-> status, body |-> body])]
          IN  faucet' =
                IF ~FaucetStatusOk(status)
                THEN FaucetReturn(f, [ok |-> FALSE,
                                      err |-> err("submit failed: {}", <<status>>)])
                ELSE FaucetReturn(f, [ok |-> TRUE, val |-> faucet.tx_hash.val])
    /\ UNCHANGED <<now, builds, call, rerun, env, submit, create>>

---------------------------------------------------------------------------
(* The two-phase path: the submit_transaction tool (server.rs:65-88) over  *)
(* BlockchainClient::submit_signed_transaction and request                 *)
(* (client_wasm.rs:32-38, :134-170), in two steps: up to the send() it     *)
(* awaits, and after the response.                                         *)

\* The variants of BlockchainError that request makes (client_wasm.rs:146-169).
HttpRequestWasm(text) == [variant |-> "HttpRequestWasm", text |-> text, args |-> <<>>]
InvalidResponse(text, args) == [variant |-> "InvalidResponse", text |-> text, args |-> args]

\* McpError::invalid_params("validation_failed", ..) (server.rs:70-75)
ValidationFailed ==
    [ kind |-> "invalid_params", message |-> "validation_failed",
      data |-> [variant |-> "validator", text |-> "errors", args |-> <<>>] ]

\* blockchain_error (server.rs:255-278)
blockchain_error(error) ==
    CASE error.variant = "AccountNotFound" ->
             [kind |-> "resource_not_found", message |-> "account_not_found", data |-> error]
      [] error.variant = "InsufficientBalance" ->
             [kind |-> "invalid_request", message |-> "insufficient_balance", data |-> error]
      [] error.variant = "ValidationFailed" ->
             [kind |-> "invalid_params", message |-> "validation_failed", data |-> error]
      [] OTHER ->
             [kind |-> "internal_error", message |-> "blockchain_error", data |-> error]

\* serde_json::from_str::<SubmitResponse> (client_wasm.rs:168-169).  The tool
\* reads the fields transaction_hash and status of a SubmitResponse
\* (server.rs:84-85) and no other: a body parses when it is JSON and has both,
\* whatever else it holds.
ParseSubmitResponse(body) ==
    IF body.json /\ body.transaction_hash.some /\ body.status.some
    THEN Ok([ transaction_hash |-> body.transaction_hash.val,
              status |-> body.status.val ], <<>>)
    ELSE Err("serde_json", <<>>)

\* The signed transactions the tool is called with: a blob and a signature,
\* either of which may be empty.
SignedTransactions ==
    { [transaction |-> "blob", signature |-> "c2ln"],
      [transaction |-> "blob", signature |-> ""],
      [transaction |-> "",     signature |-> "c2ln"] }

SubmitIdle ==
    [ pc |-> "idle", tx |-> [transaction |-> "", signature |-> ""],
      sent |-> 0, request |-> None, response |-> None, result |-> None ]

SubmitReturn(s, result) == [ s EXCEPT !.pc = "done", !.result = Some(result) ]

SubmitFail(s, error) ==
    SubmitReturn(s, [ok |-> FALSE, err |-> blockchain_error(error)])

\* tx.validate() (server.rs:70).  The rules are those of the
\* SignedTransaction type, which the files modelled here do not hold; the
\* specification's lifecycle has a transaction Signed only when a signature
\* is attached to a blob.
SignedTransaction_validate(tx) == tx.transaction # "" /\ tx.signature # ""

\* server.rs:69-80 and client_wasm.rs:33-157: the tool is called.
SubmitTransaction ==
    /\ submit.pc # "awaiting"
    /\ \E tx \in SignedTransactions :
          LET s == [SubmitIdle EXCEPT !.tx = tx]
              url == [ base |-> env.base_url, path |-> "/api/v1/tx/submit",
                       body |-> [transaction |-> tx.transaction,
                                 signature |-> tx.signature] ]
          IN  submit' =
                IF ~SignedTransaction_validate(tx)
                THEN SubmitReturn(s, [ok |-> FALSE, err |-> ValidationFailed])
                ELSE IF ~UrlParses(url.base)
                THEN SubmitFail(s, HttpRequestWasm("invalid url"))
                ELSE [ s EXCEPT !.pc = "awaiting", !.sent = 1,
                                !.request = Some(url) ]
    /\ UNCHANGED <<now, builds, call, rerun, env, faucet, create>>

\* client_wasm.rs:157-158: send() fails, no response arrives.
SubmitSendFails ==
    /\ submit.pc = "awaiting"
    /\ submit' = SubmitFail(submit, HttpRequestWasm("fetch failed"))
    /\ UNCHANGED <<now, builds, call, rerun, env, faucet, create>>

\* client_wasm.rs:160-169 and server.rs:81-87: the response arrives.
SubmitResponse ==
    /\ submit.pc = "awaiting"
    /\ \E status \in Statuses, body \in Bodies :
          LET s == [submit EXCEPT !.response = Some([status |-> status, body |-> body])]
              parsed == ParseSubmitResponse(body)
          IN  submit' =
                IF ~ClientStatusOk(status)
                THEN SubmitFail(s, InvalidResponse("HTTP {}", <<status>>))
                ELSE IF ~body.readable
                THEN SubmitFail(s, HttpRequestWasm("body read failed"))
                ELSE IF ~parsed.ok
                THEN SubmitFail(s, InvalidResponse("serde_json", <<>>))
                ELSE SubmitReturn(s,
                       [ ok |-> TRUE,
                         val |-> [ transaction_hash |-> parsed.val.transaction_hash,
                                   status |-> parsed.val.status,
                                   message |-> "Transaction submitted successfully" ] ])
    /\ UNCHANGED <<now, builds, call, rerun, env, faucet, create>>

---------------------------------------------------------------------------
(* The first phase of the two-phase path: the create_transfer tool        *)
(* (server.rs:34-59) over BlockchainClient::create_transfer_blob and       *)
(* request (client_wasm.rs:20-30, :134-170), in two steps like the         *)
(* submit_transaction tool.                                                *)

\* The transfers the tool is asked to build.
TransferRequests ==
    { [ source |-> "7EVUJE", destination |-> "6969GA", symbol |-> "AMA",
        amount |-> "1", memo |-> None ] }

BuildBody(readable, json, blob, signing_payload, transaction_hash) ==
    [ readable |-> readable, json |-> json, blob |-> blob,
      signing_payload |-> signing_payload,
      transaction_hash |-> transaction_hash ]

\* The bodies a response to a build is drawn from: an unsigned blob with its
\* signing payload and hash; an empty JSON object; a text that is no JSON; a
\* body whose read fails.
BuildBodies ==
    { BuildBody(TRUE, TRUE, Some("blob"), Some("9f3a5c"), Some("9f3a")),
      BuildBody(TRUE, TRUE, None, None, None),
      BuildBody(TRUE, FALSE, None, None, None),
      BuildBody(FALSE, FALSE, None, None, None) }

\* serde_json::from_str::<UnsignedTransactionBlob> (client_wasm.rs:168-169).
\* The tool reads the fields blob, signing_payload and transaction_hash
\* (server.rs:53-55): a body parses when it is JSON and has the three.
ParseUnsignedTransactionBlob(body) ==
    IF body.json /\ body.blob.some /\ body.signing_payload.some
                 /\ body.transaction_hash.some
    THEN Ok([ blob |-> body.blob.val,
              signing_payload |-> body.signing_payload.val,
              transaction_hash |-> body.transaction_hash.val ], <<>>)
    ELSE Err("serde_json", <<>>)

CreateIdle ==
    [ pc |-> "idle", req |-> None, sent |-> 0, request |-> None,
      response |-> None, result |-> None ]

CreateReturn(c, result) == [ c EXCEPT !.pc = "done", !.result = Some(result) ]

CreateFail(c, error) ==
    CreateReturn(c, [ok |-> FALSE, err |-> blockchain_error(error)])

\* server.rs:38-50 and client_wasm.rs:20-29, :134-157: the tool is called.
\* The rules of req.validate() are those of the TransferRequest type, which
\* the files modelled here do not hold: either outcome is possible.
CreateTransfer ==
    /\ create.pc # "awaiting"
    /\ \E req \in TransferRequests, valid \in BOOLEAN :
          LET c == [CreateIdle EXCEPT !.req = Some(req)]
              url == [ base |-> env.base_url, path |-> "/api/v1/tx/build",
                       body |-> [ type |-> "transfer", from |-> req.source,
                                  to |-> req.destination, asset |-> req.symbol,
                                  amount |-> req.amount, memo |-> req.memo ] ]
          IN  create' =
                IF ~valid
                THEN CreateReturn(c, [ok |-> FALSE, err |-> ValidationFailed])
                ELSE IF ~UrlParses(url.base)
                THEN CreateFail(c, HttpRequestWasm("invalid url"))
                ELSE [ c EXCEPT !.pc = "awaiting", !.sent = 1,
                                !.request = Some(url) ]
    /\ UNCHANGED <<now, builds, call, rerun, env, faucet, submit>>

\* client_wasm.rs:157-158: send() fails, no response arrives.
CreateSendFails ==
    /\ create.pc = "awaiting"
    /\ create' = CreateFail(create, HttpRequestWasm("fetch failed"))
    /\ UNCHANGED <<now, builds, call, rerun, env, faucet, submit>>

\* client_wasm.rs:160-169 and server.rs:46-58: the response arrives.
CreateResponse ==
    /\ create.pc = "awaiting"
    /\ \E status \in Statuses, body \in BuildBodies :
          LET c == [create EXCEPT !.response = Some([status |-> status, body |-> body])]
              parsed == ParseUnsignedTransactionBlob(body)
          IN  create' =
                IF ~ClientStatusOk(status)
                THEN CreateFail(c, InvalidResponse("HTTP {}", <<status>>))
                ELSE IF ~body.readable
                THEN CreateFail(c, HttpRequestWasm("body read failed"))
                ELSE IF ~parsed.ok
                THEN CreateFail(c, InvalidResponse("serde_json", <<>>))
                ELSE CreateReturn(c,
                       [ ok |-> TRUE,
                         val |-> [ blob |-> parsed.val.blob,
                                   signing_payload |-> parsed.val.signing_payload,
                                   transaction_hash |-> parsed.val.transaction_hash,
                                   status |-> "unsigned" ] ])
    /\ UNCHANGED <<now, builds, call, rerun, env, faucet, submit>>

---------------------------------------------------------------------------
(* The specifications. *)

GoodUrl == Url("https", "testnet.amadeus.bot", 0)

\* The configurations a process starts with: the faucet's RPC URL and secret
\* (mint.rs:10-17), each set or not, and the client's base URL
\* (client_wasm.rs:14-18, trimmed by new).
Environments ==
    [ rpc : { None, Some(GoodUrl), Some(Url("https", "testnet.amadeus.bot", 2)),
              Some(Url("", "testnet.amadeus.bot", 0)) },
      sk : { None, Some(NotBase58), Some(Base58Text(SkOne)),
             Some(Base58Text(SkShort)), Some(Base58Text(SkZero)) },
      base_url : { trim_end_matches_slash(Url("https", "nodes.amadeus.bot", 1)),
                   trim_end_matches_slash(Url("", "nodes.amadeus.bot", 0)) } ]

Init ==
    /\ now = 1
    /\ builds = 0
    /\ call = NoCall
    /\ rerun = NoRerun
    /\ env \in Environments
    /\ faucet = FaucetIdle
    /\ submit = SubmitIdle
    /\ create = CreateIdle

\* The submission flows of a configured process.
Next ==
    \/ Tick
    \/ FaucetTransfer
    \/ FaucetSendFails
    \/ FaucetResponse
    \/ SubmitTransaction
    \/ SubmitSendFails
    \/ SubmitResponse

Spec == Init /\ [][Next]_vars

\* The faucet worker alone.
NextFaucet ==
    \/ Tick
    \/ FaucetTransfer
    \/ FaucetSendFails
    \/ FaucetResponse

SpecFaucet == Init /\ [][NextFaucet]_vars

\* The tools and the faucet at one reading of the clock: every path from a
\* transaction's construction to its submission.
NextPaths ==
    \/ FaucetTransfer
    \/ FaucetSendFails
    \/ FaucetResponse
    \/ CreateTransfer
    \/ CreateSendFails
    \/ CreateResponse
    \/ SubmitTransaction
    \/ SubmitSendFails
    \/ SubmitResponse

SpecPaths == Init /\ [][NextPaths]_vars

\* A process whose callers call the builder functions directly; they read no
\* configuration.
InitBuild ==
    /\ now = 1
    /\ builds = 0
    /\ call = NoCall
    /\ rerun = NoRerun
    /\ env = [ rpc |-> None, sk |-> None, base_url |-> GoodUrl ]
    /\ faucet = FaucetIdle
    /\ submit = SubmitIdle
    /\ create = CreateIdle

NextBuild ==
    \/ Tick
    \/ CallBuildMintTx
    \/ CallBuildTransferTx
    \/ CallBuild
    \/ Rebuild

SpecBuild == InitBuild /\ [][NextBuild]_vars

---------------------------------------------------------------------------
(* What the claims are stated with.                                        *)

\* The wire unit the last call returned, and the one its repetition returned.
CallUnit == from_slice_txu(call.out.val)
RerunUnit == from_slice_txu(rerun.out.val)

CallBuilt == call.fn # "none" /\ call.out.ok

RECURSIVE DigitsValue(_)
\* The number a sequence of ASCII digits writes.
DigitsValue(d) ==
    IF d = <<>> THEN 0
    ELSE (DigitsValue(SubSeq(d, 1, Len(d) - 1)) * 10) + (d[Len(d)] - 48)

\* bytes is the decimal writing of the i128 a: an optional '-', then digits
\* without a leading zero, of value a.
IsDecimalOf(bytes, a) ==
    LET neg    == bytes # <<>> /\ bytes[1] = 45
        digits == IF neg THEN Tail(bytes) ELSE bytes
        n      == Len(digits)
    IN  /\ n >= 1
        /\ \A i \in 1..n : digits[i] \in 48..57
        /\ (n > 1 => digits[1] # 48)
        /\ neg = a.neg
        /\ IF n <= 9
           THEN a.hi = 0 /\ a.lo = DigitsValue(digits)
           ELSE /\ a.hi = DigitsValue(SubSeq(digits, 1, n - 9))
                /\ a.lo = DigitsValue(SubSeq(digits, n - 8, n))

\* The entries of the action as they stand in a packed wire unit.
PackedActionEntries(packed) ==
    EntryOf(EntryOf(packed.vecpak, "tx"), "action")

NoAttachedAsset(packed) ==
    /\ ~from_slice_txu(packed).tx.action.attached_symbol.some
    /\ ~from_slice_txu(packed).tx.action.attached_amount.some
    /\ ~HasEntry(PackedActionEntries(packed), "attached_symbol")
    /\ ~HasEntry(PackedActionEntries(packed), "attached_amount")

\* Signature verification: sig verifies for (pk, message, dst) exactly when
\* it was made over message under dst by the scalar whose G1 point is pk.
Verify(pk, message, dst, sig) ==
    /\ sig.dst = dst
    /\ sig.message = message
    /\ pk = [g1 |-> sig.signer]

---------------------------------------------------------------------------
\* C1: whenever build_transfer_tx succeeds, the transaction in the unit it
\* returns has op "call", contract "Coin", function "transfer", exactly the
\* three args receiver, amount in decimal, symbol, in that order, and no
\* attached symbol or amount.
C1_TransferRecipe ==
    (CallBuilt /\ call.fn = "build_transfer_tx") =>
        LET a == CallUnit.tx.action IN
        /\ a.op = "call"
        /\ a.contract = "Coin"
        /\ a.function = "transfer"
        /\ Len(a.args) = 3
        /\ a.args[1] = call.receiver
        /\ IsDecimalOf(a.args[2], call.amount)
        /\ a.args[3] = call.symbol
        /\ NoAttachedAsset(call.out.val)

\* transfer(R, "AMA", 100000000000) was built with args [R, "100000000000", "AMA"].
C1_Witness ==
    /\ CallBuilt /\ call.fn = "build_transfer_tx"
    /\ call.receiver = Addr48 /\ call.symbol = FAUCET_SYMBOL
    /\ call.amount = FAUCET_AMOUNT
    /\ CallUnit.tx.action.args =
         << Addr48, <<49, 48, 48, 48, 48, 48, 48, 48, 48, 48, 48, 48>>, <<65, 77, 65>> >>

\* C2: whenever build_mint_tx succeeds, the transaction in the unit it returns
\* has op "call", contract "Coin", function "mint", exactly the two args
\* symbol, amount in decimal, in that order, and no attached asset.
C2_MintRecipe ==
    (CallBuilt /\ call.fn = "build_mint_tx") =>
        LET a == CallUnit.tx.action IN
        /\ a.op = "call"
        /\ a.contract = "Coin"
        /\ a.function = "mint"
        /\ Len(a.args) = 2
        /\ a.args[1] = call.symbol
        /\ IsDecimalOf(a.args[2], call.amount)
        /\ NoAttachedAsset(call.out.val)

\* mint("AMA", 100) was built with args ["AMA", "100"].
C2_Witness ==
    /\ CallBuilt /\ call.fn = "build_mint_tx"
    /\ call.symbol = FAUCET_SYMBOL /\ call.amount = I128(FALSE, 0, 100)
    /\ CallUnit.tx.action.args = << <<65, 77, 65>>, <<49, 48, 48>> >>

\* C3: in every unit build returns, the hash field is the SHA-256 of the
\* canonical encoding of the transaction in that same unit, both as the
\* transaction's bytes stand in the unit and as the decoded transaction
\* encodes again; and that transaction has the signer, nonce and action of
\* the call.
C3_HashBinding ==
    CallBuilt =>
        /\ CallUnit.hash = Sha256([vecpak |-> EntryOf(call.out.val.vecpak, "tx")])
        /\ CallUnit.hash = Sha256(to_vec_tx(CallUnit.tx))
        /\ CallUnit.tx.signer = get_public_key(call.sk).val
        /\ CallUnit.tx.nonce = call.at * NanosPerMilli
        /\ CallUnit.tx.action.op = "call"
        /\ call.fn = "build" =>
              /\ CallUnit.tx.action.function = call.function
              /\ CallUnit.tx.action.contract = call.contract
              /\ CallUnit.tx.action.args = call.args
              /\ CallUnit.tx.action.attached_symbol = call.attached_symbol
              /\ CallUnit.tx.action.attached_amount = call.attached_amount

\* build returned a unit for a call with an attached asset.
C3_Witness ==
    /\ CallBuilt /\ call.fn = "build"
    /\ call.attached_symbol.some /\ call.attached_amount.some
    /\ CallUnit.tx.action.attached_symbol.some
    /\ CallUnit.hash = Sha256(to_vec_tx(CallUnit.tx))

\* C4: in every unit build returns for a secret, the signature is made with
\* that secret's scalar over the 32-byte hash stored in the unit (a SHA-256
\* digest, not the encoded transaction) under DST_TX, and tx.signer is the
\* public key of the same secret: the signature verifies for
\* (tx.signer, hash, DST_TX), and for no other message, tag or derived key.
C4_SignatureOverDigest ==
    CallBuilt =>
        LET u == CallUnit
            otherMessages == { to_vec_tx(u.tx), Sha256(call.out.val),
                               Sha256([vecpak |-> TxActionEntries(u.tx.action)]) }
            otherKeys == { get_public_key(sk).val :
                             sk \in { x \in Secrets : Len(x) = SecretKeyLen } }
                         \ { u.tx.signer }
        IN  /\ u.tx.signer = get_public_key(call.sk).val
            /\ DOMAIN u.hash = {"sha256"}
            /\ u.signature.message = u.hash
            /\ u.signature.dst = DST_TX
            /\ Verify(u.tx.signer, u.hash, DST_TX, u.signature)
            /\ \A m \in otherMessages : ~Verify(u.tx.signer, m, DST_TX, u.signature)
            /\ \A pk \in otherKeys : ~Verify(pk, u.hash, DST_TX, u.signature)
            /\ ~Verify(u.tx.signer, u.hash, "", u.signature)

\* build returned a unit signed with the secret 02 01 00 .. 00, whose
\* signature verifies under its public key.
C4_Witness ==
    /\ CallBuilt /\ call.sk = SkTwo
    /\ CallUnit.tx.signer = [g1 |-> SubSeq(SkTwo, 1, ScalarLen)]
    /\ Verify(CallUnit.tx.signer, CallUnit.hash, DST_TX, CallUnit.signature)

\* C5: a secret whose length is not 64 makes build, build_mint_tx and
\* build_transfer_tx return the error "secret key must be 64 bytes" with no
\* step performed: no key derivation, clock read, encoding, hashing or
\* signing; the same holds when the call is repeated.
C5_SecretLengthRejectedFirst ==
    /\ (call.fn # "none" /\ Len(call.sk) # 64) =>
           /\ ~call.out.ok
           /\ call.out.err = "secret key must be 64 bytes"
           /\ call.out.steps = <<>>
    /\ (rerun.done /\ Len(call.sk) # 64) =>
           /\ ~rerun.out.ok
           /\ rerun.out.steps = <<>>

\* build_transfer_tx was called with a secret of 65 bytes and returned an
\* error with no step performed.
C5_Witness ==
    /\ call.fn = "build_transfer_tx"
    /\ Len(call.sk) = 65
    /\ ~call.out.ok
    /\ call.out.steps = <<>>

\* C6: a receiver whose length is not 48 is rejected before a transfer
\* transaction is built and before any cryptographic step, on every path
\* that builds one: build_transfer_tx returns no signed unit for it, and the
\* faucet sends no request for it.
C6_ReceiverLengthRejected ==
    /\ (call.fn = "build_transfer_tx" /\ Len(call.receiver) # 48) =>
           /\ ~call.out.ok
           /\ call.out.steps = <<>>
    /\ (faucet.pc # "idle" /\ faucet.address.b58 /\ Len(faucet.address.bytes) # 48) =>
           /\ faucet.pc = "done"
           /\ ~faucet.result.val.ok
           /\ ~faucet.request.some
           /\ \A i \in 1..Len(faucet.steps) :
                 faucet.steps[i] \in {"rpc", "sk", "decode_sk", "decode_address"}

---------------------------------------------------------------------------
\* What a finished submission shows its caller.
FaucetAnswered == faucet.pc = "done" /\ faucet.response.some
SubmitAnswered == submit.pc = "done" /\ submit.response.some

NonSuccess(status) == status \notin 200..299

\* C7: when the response to a submission has a status outside 200..299, the
\* caller gets an error value that reports the failed status (from the
\* faucet, the JSON error "submit failed: <status>"; from the tool, the
\* client's InvalidResponse("HTTP <status>") as an internal error), never a
\* transaction identifier or a success result, and the faucet keeps neither
\* the signed unit nor its identifier.
C7_NonSuccessIsError ==
    /\ (FaucetAnswered /\ NonSuccess(faucet.response.val.status)) =>
           /\ ~faucet.result.val.ok
           /\ faucet.result.val.err =
                 [ code |-> InternalErrorCode, message |-> "submit failed: {}",
                   args |-> <<faucet.response.val.status>> ]
           /\ ~faucet.tx_packed.some
           /\ ~faucet.tx_hash.some
    /\ (SubmitAnswered /\ NonSuccess(submit.response.val.status)) =>
           /\ ~submit.result.val.ok
           /\ submit.result.val.err.kind = "internal_error"
           /\ submit.result.val.err.data =
                 [ variant |-> "InvalidResponse", text |-> "HTTP {}",
                   args |-> <<submit.response.val.status>> ]

\* The faucet's submission was answered 300 and the tool's 500, and both
\* callers got an error.
C7_Witness ==
    /\ FaucetAnswered /\ faucet.response.val.status = 300
    /\ ~faucet.result.val.ok
    /\ SubmitAnswered /\ submit.response.val.status = 500
    /\ ~submit.result.val.ok

\* C8: when the response to a submission carries an application-level error
\* field, the caller gets an error, whatever the status: never a
\* transaction identifier, never "submitted successfully".
C8_EmbeddedErrorFails ==
    /\ (FaucetAnswered /\ faucet.response.val.body.error.some) =>
           ~faucet.result.val.ok
    /\ (SubmitAnswered /\ submit.response.val.body.error.some) =>
           ~submit.result.val.ok

\* The unit the faucet handed to the transport.
FaucetSubmittedUnit == from_slice_txu(bs58_decode(faucet.request.val.arg).val)

\* C9: the identifier the faucet returns after a successful submission is
\* the hex encoding of the transaction digest: of the hash that was signed
\* and that the submitted unit carries.
C9_IdentifierIsDigest ==
    (faucet.pc = "done" /\ faucet.result.val.ok) =>
        /\ faucet.result.val.val = hex_encode(FaucetSubmittedUnit.hash)
        /\ FaucetSubmittedUnit.signature.message = FaucetSubmittedUnit.hash

\* C10 as stated: a second run of a call with the same inputs returns a unit
\* with the same public key, the same digest and the same signature.
C10_SameInputsSameOutput ==
    (CallBuilt /\ rerun.done /\ rerun.out.ok) =>
        /\ RerunUnit.tx.signer = CallUnit.tx.signer
        /\ RerunUnit.hash = CallUnit.hash
        /\ RerunUnit.signature = CallUnit.signature

\* C10, amended: a second run of a call with the same inputs succeeds when
\* the first did and returns a unit with the same public key; when both runs
\* read the same clock value, the digest, the signature and the whole unit
\* are the same too.
C10_SameInputsSameClock ==
    (CallBuilt /\ rerun.done) =>
        /\ rerun.out.ok
        /\ RerunUnit.tx.signer = CallUnit.tx.signer
        /\ rerun.at = call.at =>
              /\ RerunUnit.hash = CallUnit.hash
              /\ RerunUnit.signature = CallUnit.signature
              /\ rerun.out.val = call.out.val

\* A transfer was built twice at the same clock value, build having run
\* twice, and the two units are the same.
C10_Witness ==
    /\ CallBuilt /\ call.fn = "build_transfer_tx"
    /\ rerun.done /\ rerun.out.ok /\ builds >= 2
    /\ rerun.at = call.at
    /\ RerunUnit.hash = CallUnit.hash
    /\ RerunUnit.signature = CallUnit.signature

---------------------------------------------------------------------------
\* C11: the nonce of a built transaction is the clock reading in
\* milliseconds times 1,000,000, whatever else has happened in the process
\* (no counter, no lock); so two builds by the same signer that read the
\* same clock value have the same nonce, and with equal actions the same
\* hash.
C11_NonceIsScaledClock ==
    /\ CallBuilt => CallUnit.tx.nonce = call.at * 1000000
    /\ (CallBuilt /\ rerun.done) =>
          /\ rerun.out.ok
          /\ RerunUnit.tx.nonce = rerun.at * 1000000
          /\ RerunUnit.tx.signer = CallUnit.tx.signer
          /\ rerun.at = call.at =>
                /\ RerunUnit.tx.nonce = CallUnit.tx.nonce
                /\ (RerunUnit.tx.action = CallUnit.tx.action
                      => RerunUnit.hash = CallUnit.hash)

\* Two builds of the same mint by the same signer read the clock at 2 ms:
\* both have the nonce 2,000,000 and the same hash.
C11_Witness ==
    /\ CallBuilt /\ call.fn = "build_mint_tx" /\ call.at = 2
    /\ rerun.done /\ rerun.out.ok /\ rerun.at = 2
    /\ CallUnit.tx.nonce = 2000000
    /\ RerunUnit.tx.nonce = 2000000
    /\ RerunUnit.tx.signer = CallUnit.tx.signer
    /\ RerunUnit.hash = CallUnit.hash

---------------------------------------------------------------------------
\* The failures a sequence can meet after its request was sent: no response
\* (transport error), a status outside 200..299, and, where the response is
\* read (the tool's client), a body that cannot be read or parsed.
FaucetFailedCall ==
    /\ faucet.pc = "done" /\ faucet.sent > 0
    /\ (~faucet.response.some \/ NonSuccess(faucet.response.val.status))

SubmitFailedCall ==
    /\ submit.pc = "done" /\ submit.sent > 0
    /\ \/ ~submit.response.some
       \/ NonSuccess(submit.response.val.status)
       \/ ~submit.response.val.body.readable
       \/ ~ParseSubmitResponse(submit.response.val.body).ok

\* In every state: a sequence has issued at most one network call, the call
\* it waits for is that one, and a sequence whose call failed has ended with
\* an error.
C12_AtMostOneCall ==
    /\ faucet.sent \in {0, 1} /\ submit.sent \in {0, 1}
    /\ faucet.pc = "awaiting" => (faucet.sent = 1 /\ ~faucet.result.some)
    /\ submit.pc = "awaiting" => (submit.sent = 1 /\ ~submit.result.some)
    /\ FaucetFailedCall => (faucet.result.some /\ ~faucet.result.val.ok)
    /\ SubmitFailedCall => (submit.result.some /\ ~submit.result.val.ok)

\* In every step: what follows a call that is outstanding is the end of its
\* sequence, with the same one request and no other.
C12_CallEndsSequence ==
    /\ faucet.pc = "awaiting" =>
          \/ faucet' = faucet
          \/ /\ faucet'.pc = "done"
             /\ faucet'.sent = faucet.sent
             /\ faucet'.request = faucet.request
    /\ submit.pc = "awaiting" =>
          \/ submit' = submit
          \/ /\ submit'.pc = "done"
             /\ submit'.sent = submit.sent
             /\ submit'.request = submit.request

\* C12: within one build-sign-submit sequence at most one network call is
\* outstanding and each network call is issued at most once: after a
\* transport error, a non-success status or an unparsable response there is
\* no retry, and the sequence ends with an error.
C12_NoRetry == []C12_AtMostOneCall /\ [][C12_CallEndsSequence]_vars

\* The faucet's send failed and the tool's response had status 200 and a
\* body that does not parse: each sequence made one call and ended in error.
C12_Witness ==
    /\ FaucetFailedCall /\ ~faucet.response.some
    /\ faucet.sent = 1 /\ ~faucet.result.val.ok
    /\ SubmitFailedCall /\ submit.response.some
    /\ submit.response.val.status = 200
    /\ submit.response.val.body.readable
    /\ ~ParseSubmitResponse(submit.response.val.body).ok
    /\ submit.sent = 1 /\ ~submit.result.val.ok

---------------------------------------------------------------------------
\* The self-contained path: the unit in the faucet's request was built and
\* signed by the call that sent it, and its signature verifies under its
\* signer for its hash.
FaucetSentSigned ==
    faucet.request.some =>
        /\ \E i, j \in 1..Len(faucet.steps) :
              /\ i < j
              /\ faucet.steps[i] = "sign"
              /\ faucet.steps[j] = "send"
        /\ FaucetSubmittedUnit.hash = Sha256(to_vec_tx(FaucetSubmittedUnit.tx))
        /\ Verify(FaucetSubmittedUnit.tx.signer, FaucetSubmittedUnit.hash,
                  DST_TX, FaucetSubmittedUnit.signature)

\* The two-phase path: the tool's request carries a blob and a signature, the
\* ones the caller supplied.
SubmitSentSigned ==
    submit.request.some =>
        /\ submit.request.val.body.transaction # ""
        /\ submit.request.val.body.signature # ""
        /\ submit.request.val.body.transaction = submit.tx.transaction
        /\ submit.request.val.body.signature = submit.tx.signature

\* The least a preceding build means in the two-phase path: the
\* create_transfer tool was called before the submission went out.
SubmitSentAfterBuild == submit.request.some => create.pc # "idle"

---------------------------------------------------------------------------
\* The transaction the faucet builds from its secret and the address, once
\* both have decoded.
FaucetBuilt ==
    build_transfer_tx(bs58_decode(env.sk.val).val, bs58_decode(faucet.address).val,
                      FAUCET_SYMBOL, FAUCET_AMOUNT)

\* The steps of the faucet transfer in their order, each with the message of
\* its failure: the first that fails, or None when all succeed.
FaucetFirstFailure ==
    IF ~env.rpc.some THEN Some("AMADEUS_TESTNET_RPC not configured")
    ELSE IF ~env.sk.some THEN Some("AMADEUS_TESTNET_SK not configured")
    ELSE IF ~env.sk.val.b58 THEN Some("invalid mint key encoding")
    ELSE IF ~faucet.address.b58 THEN Some("invalid address encoding")
    ELSE IF Len(faucet.address.bytes) # 48 THEN Some("address must be 48 bytes")
    ELSE IF Len(env.sk.val.bytes) # 64 THEN Some("secret key must be 64 bytes")
    ELSE IF ~FaucetBuilt.ok THEN Some(FaucetBuilt.err)
    ELSE IF env.rpc.val.scheme = "" THEN Some("relative URL without a base")
    ELSE None

\* C14: in the faucet transfer no HTTP request is issued unless every
\* earlier step succeeded, and the first failing step in the order RPC URL
\* configured, secret configured, secret decodes, address decodes, address
\* is 48 bytes, transaction builds (which wants a secret of 64 bytes),
\* submit URL parses, decides the error returned; Ok(transaction id) is
\* returned only after a request was sent and answered with a 2xx status.
C14_FirstFailureDecides ==
    faucet.pc # "idle" =>
        /\ FaucetFirstFailure.some =>
              /\ faucet.pc = "done"
              /\ ~faucet.result.val.ok
              /\ faucet.result.val.err =
                    [ code |-> -32603, message |-> FaucetFirstFailure.val,
                      args |-> <<>> ]
              /\ ~faucet.request.some
              /\ faucet.sent = 0
        /\ faucet.request.some =>
              /\ ~FaucetFirstFailure.some
              /\ faucet.sent = 1
        /\ (faucet.pc = "done" /\ faucet.result.val.ok) =>
              /\ faucet.request.some
              /\ faucet.sent = 1
              /\ faucet.response.some
              /\ faucet.response.val.status \in 200..299

\* The secret has 63 bytes and the RPC URL is not absolute: the build is the
\* first step to fail, its message is returned and no request was sent.
C14_Witness ==
    /\ faucet.pc = "done"
    /\ env.rpc.some /\ env.rpc.val.scheme = ""
    /\ env.sk.some /\ env.sk.val.b58 /\ Len(env.sk.val.bytes) = 63
    /\ faucet.address.b58 /\ Len(faucet.address.bytes) = 48
    /\ faucet.result.val.err.message = "secret key must be 64 bytes"
    /\ ~faucet.request.some

====
